---- MODULE Spec2Model ----
(***************************************************************************)
(* Resume-scoring pipeline of the Zelosify recruiting backend:             *)
(*   ResumeParserService -> FeatureExtractorService -> ScoringService      *)
(*   -> submitHiringProfile (idempotency lookup + Prisma transaction).     *)
(*                                                                         *)
(* Representation.                                                         *)
(*   - A string is a sequence of one-character strings.                    *)
(*   - The extracted resume text is the sequence of its whitespace-        *)
(*     separated tokens; the empty text is the empty sequence.             *)
(*   - Scores are integers scaled by 10000 (four decimals); years of       *)
(*     experience are integers scaled by 10 (one decimal).                 *)
(*   - The HiringProfile table is the set of committed rows; rows written  *)
(*     inside an open transaction live in that request's tx workspace      *)
(*     and are invisible to every other reader until commit.               *)
(***************************************************************************)
EXTENDS Integers, Sequences, FiniteSets, TLC

\* ------------------------------------------------------------------------
\* Bounds of the model
\* ------------------------------------------------------------------------

\* number of submitHiringProfile invocations in one behaviour
NumReq == 2

\* number of attempts at one submission: the first one and its retries
NumRetry == 3

\* ------------------------------------------------------------------------
\* Strings
\* ------------------------------------------------------------------------

UpperChars == <<"A","B","C","D","E","F","G","H","I","J","K","L","M",
                "N","O","P","Q","R","S","T","U","V","W","X","Y","Z">>

LowerChars == <<"a","b","c","d","e","f","g","h","i","j","k","l","m",
                "n","o","p","q","r","s","t","u","v","w","x","y","z">>

\* String.prototype.toLowerCase on one character
LowerChar(c) ==
  IF \E i \in 1..26 : UpperChars[i] = c
    THEN LowerChars[CHOOSE i \in 1..26 : UpperChars[i] = c]
    ELSE c

\* String.prototype.toUpperCase on one character
UpperChar(c) ==
  IF \E i \in 1..26 : LowerChars[i] = c
    THEN UpperChars[CHOOSE i \in 1..26 : LowerChars[i] = c]
    ELSE c

toLowerCase(s) == [i \in 1..Len(s) |-> LowerChar(s[i])]

IsSpace(c) == c = " "

RECURSIVE trimStart(_)
trimStart(s) ==
  IF s = <<>> THEN <<>>
  ELSE IF IsSpace(Head(s)) THEN trimStart(Tail(s))
  ELSE s

RECURSIVE trimEnd(_)
trimEnd(s) ==
  IF s = <<>> THEN <<>>
  ELSE IF IsSpace(s[Len(s)]) THEN trimEnd(SubSeq(s, 1, Len(s) - 1))
  ELSE s

\* String.prototype.trim
trim(s) == trimEnd(trimStart(s))

\* s.replace(/\s+/g, "")
stripWhitespace(s) == SelectSeq(s, LAMBDA c : ~IsSpace(c))

\* s.split(/\s+/) on a trimmed, non-empty string: the maximal runs of
\* non-space characters, in order
RECURSIVE splitWords(_, _, _)
splitWords(s, cur, acc) ==
  IF s = <<>>
    THEN (IF cur = <<>> THEN acc ELSE Append(acc, cur))
  ELSE IF IsSpace(Head(s))
    THEN splitWords(Tail(s), <<>>, IF cur = <<>> THEN acc ELSE Append(acc, cur))
  ELSE splitWords(Tail(s), Append(cur, Head(s)), acc)

\* w.charAt(0).toUpperCase() + w.slice(1).toLowerCase()
titleWord(w) ==
  IF w = <<>> THEN <<>>
  ELSE <<UpperChar(w[1])>> \o toLowerCase(Tail(w))

\* words.join(" ")
RECURSIVE joinWords(_)
joinWords(ws) ==
  IF ws = <<>> THEN <<>>
  ELSE IF Len(ws) = 1 THEN ws[1]
  ELSE ws[1] \o <<" ">> \o joinWords(Tail(ws))

\* s.endsWith("s")
endsWithS(s) == Len(s) > 0 /\ s[Len(s)] = "s"

\* ------------------------------------------------------------------------
\* SkillCanonicalizer (FeatureExtractorService.ts)
\* ------------------------------------------------------------------------

\* Entries of SKILL_ALIAS_MAP used here: <<surface form, canonical name>>
SKILL_ALIAS_MAP ==
  { << <<"t","y","p","e","s","c","r","i","p","t">>,
       <<"T","y","p","e","S","c","r","i","p","t">> >>,
    << <<"t","s">>,
       <<"T","y","p","e","S","c","r","i","p","t">> >>,
    << <<"r","e","a","c","t">>,          <<"R","e","a","c","t">> >>,
    << <<"r","e","a","c","t","j","s">>,  <<"R","e","a","c","t">> >>,
    << <<"a","w","s">>,                  <<"A","W","S">> >>,
    << <<"d","o","c","k","e","r">>,      <<"D","o","c","k","e","r">> >>,
    << <<"g","o">>,                      <<"G","o">> >>,
    << <<"r","e","s","t">>,              <<"R","E","S","T">> >>,
    << <<"r","e","s","t"," ","a","p","i">>, <<"R","E","S","T">> >> }

ALL_ALIASES == { p[1] : p \in SKILL_ALIAS_MAP }

\* SKILL_ALIAS_MAP[k] is defined (truthy)
HasAlias(k) == k \in ALL_ALIASES

\* SKILL_ALIAS_MAP[k]
AliasOf(k) == (CHOOSE p \in SKILL_ALIAS_MAP : p[1] = k)[2]

canonicalizeSkill(skill) ==
  LET lower    == trim(toLowerCase(skill))
      stripped == stripWhitespace(lower)
      singular == SubSeq(lower, 1, Len(lower) - 1)
  IN  IF HasAlias(lower) THEN AliasOf(lower)
      ELSE IF stripped # lower /\ HasAlias(stripped) THEN AliasOf(stripped)
      ELSE IF endsWithS(lower) /\ HasAlias(singular) THEN AliasOf(singular)
      ELSE LET t == trim(skill)
           IN  IF t = <<>> THEN <<>>
               ELSE joinWords([i \in 1..Len(splitWords(t, <<>>, <<>>)) |->
                                 titleWord(splitWords(t, <<>>, <<>>)[i])])

\* ------------------------------------------------------------------------
\* ScoringService.ts
\* ------------------------------------------------------------------------

WEIGHT_SKILL == 5       \* 0.5, in tenths
WEIGHT_EXPERIENCE == 3  \* 0.3, in tenths
WEIGHT_LOCATION == 2    \* 0.2, in tenths

\* Math.round(n / d) for n >= 0, d > 0 (round half up)
RoundDiv(n, d) == (2 * n + d) \div (2 * d)

\* Math.round(x * 10000) / 10000 of the fraction n / d, scaled by 10000
Round4(n, d) == RoundDiv(10000 * n, d)

\* (x * 100).toFixed(0) of the fraction n / d
Pct0(n, d) == RoundDiv(100 * n, d)

\* the elements of xs that lie in keep, in order
RECURSIVE FilterSeq(_, _)
FilterSeq(xs, keep) ==
  IF xs = <<>> THEN <<>>
  ELSE IF Head(xs) \in keep THEN <<Head(xs)>> \o FilterSeq(Tail(xs), keep)
  ELSE FilterSeq(Tail(xs), keep)

Range(xs) == { xs[i] : i \in 1..Len(xs) }

\* score is the fraction num / den
computeSkillMatch(candidateSkills, requiredSkills) ==
  IF Len(requiredSkills) = 0
    THEN [num |-> 1, den |-> 1, matched |-> <<>>, missing |-> <<>>]
    ELSE LET candidateSet == { canonicalizeSkill(s) : s \in Range(candidateSkills) }
             hit  == { r \in Range(requiredSkills) : canonicalizeSkill(r) \in candidateSet }
             miss == Range(requiredSkills) \ hit
             matched == FilterSeq(requiredSkills, hit)
             missing == FilterSeq(requiredSkills, miss)
         IN  [num |-> Len(matched), den |-> Len(requiredSkills),
              matched |-> matched, missing |-> missing]

\* variant: only a requirement of exactly 0 years counts as no requirement
computeExperienceMatch_noGuard(candidateExperience, requiredExperience) ==
  IF requiredExperience = 0
    THEN [num |-> 1, den |-> 1, detail |-> <<"No experience requirement.">>]
    ELSE IF requiredExperience > 0 /\ candidateExperience >= requiredExperience
      THEN [num |-> 1, den |-> 1,
            detail |-> <<"Candidate has", candidateExperience, ">=", requiredExperience>>]
      ELSE [num |-> candidateExperience, den |-> requiredExperience,
            detail |-> <<"Candidate has", candidateExperience, "<", requiredExperience>>]

\* variant: the ratio is not capped at 1
computeExperienceMatch_uncapped(candidateExperience, requiredExperience) ==
  IF requiredExperience <= 0
    THEN [num |-> 1, den |-> 1, detail |-> <<"No experience requirement.">>]
    ELSE [num |-> candidateExperience, den |-> requiredExperience,
          detail |-> <<"Candidate has", candidateExperience, requiredExperience>>]

\* years are in tenths; score is the fraction num / den
computeExperienceMatch(candidateExperience, requiredExperience) ==
  IF requiredExperience <= 0
    THEN [num |-> 1, den |-> 1, detail |-> <<"No experience requirement.">>]
    ELSE IF candidateExperience >= requiredExperience
      THEN [num |-> 1, den |-> 1,
            detail |-> <<"Candidate has", candidateExperience, ">=", requiredExperience>>]
      ELSE [num |-> candidateExperience, den |-> requiredExperience,
            detail |-> <<"Candidate has", candidateExperience, "<", requiredExperience,
                         Pct0(candidateExperience, requiredExperience)>>]

\* Entries of LOCATION_ALIASES used here: <<lower-cased name, normal form>>
LOCATION_ALIASES ==
  { << <<"b","e","n","g","a","l","u","r","u">>, <<"b","a","n","g","a","l","o","r","e">> >>,
    << <<"b","a","n","g","a","l","o","r","e">>, <<"b","a","n","g","a","l","o","r","e">> >>,
    << <<"n","e","w"," ","d","e","l","h","i">>,  <<"d","e","l","h","i">> >>,
    << <<"d","e","l","h","i">>,     <<"d","e","l","h","i">> >>,
    << <<"r","e","m","o","t","e">>,    <<"r","e","m","o","t","e">> >> }

IsSep(c) == c \in {" ", "-", "_"}

\* s.replace(/[\s\-_]+/g, " ")
RECURSIVE collapseSeps(_, _)
collapseSeps(s, inRun) ==
  IF s = <<>> THEN <<>>
  ELSE IF IsSep(Head(s))
    THEN (IF inRun THEN <<>> ELSE <<" ">>) \o collapseSeps(Tail(s), TRUE)
  ELSE <<Head(s)>> \o collapseSeps(Tail(s), FALSE)

\* variant: the alias table is not consulted
normLocation_noAlias(s) == collapseSeps(toLowerCase(trim(s)), FALSE)

normLocation(s) ==
  LET lower == collapseSeps(toLowerCase(trim(s)), FALSE)
  IN  IF \E p \in LOCATION_ALIASES : p[1] = lower
        THEN (CHOOSE p \in LOCATION_ALIASES : p[1] = lower)[2]
        ELSE lower

computeLocationMatch(candidateLocation, requiredLocation) ==
  IF requiredLocation = <<>> \/ candidateLocation = <<>>
    THEN [score |-> 1, detail |-> <<"No location constraint.">>]
    ELSE IF normLocation(candidateLocation) = normLocation(requiredLocation)
      THEN [score |-> 1,
            detail |-> <<"Location match", candidateLocation, requiredLocation>>]
      ELSE [score |-> 0,
            detail |-> <<"Location mismatch", candidateLocation, requiredLocation>>]

\* variant: the boundaries belong to the lower level
deriveConfidence_strict(finalScore) ==
  IF finalScore > 7500 THEN "HIGH"
  ELSE IF finalScore > 4500 THEN "MEDIUM"
  ELSE "LOW"

\* finalScore is scaled by 10000
deriveConfidence(finalScore) ==
  IF finalScore >= 7500 THEN "HIGH"
  ELSE IF finalScore >= 4500 THEN "MEDIUM"
  ELSE "LOW"

\* variant: the weights of skill and experience are exchanged
finalScoreOf_swappedWeights(skill, experience, location) ==
  RoundDiv(1000 * ( WEIGHT_EXPERIENCE * skill.num * experience.den
                  + WEIGHT_SKILL * experience.num * skill.den
                  + WEIGHT_LOCATION * location.score * skill.den * experience.den ),
           skill.den * experience.den)

\* Math.round(finalScore * 10000), where finalScore is the weighted sum:
\* 10000 * (0.5*skill + 0.3*experience + 0.2*location) = N / D
finalScoreOf(skill, experience, location) ==
  LET D == skill.den * experience.den
      N == 1000 * ( WEIGHT_SKILL * skill.num * experience.den
                  + WEIGHT_EXPERIENCE * experience.num * skill.den
                  + WEIGHT_LOCATION * location.score * skill.den * experience.den )
  IN  RoundDiv(N, D)

scoreCandidateForJob(input) ==
  LET skill      == computeSkillMatch(input.candidateSkills, input.jobRequiredSkills)
      experience == computeExperienceMatch(input.candidateExperience,
                                           input.jobRequiredExperience)
      location   == computeLocationMatch(input.candidateLocation,
                                         input.jobRequiredLocation)
      roundedFinal == finalScoreOf(skill, experience, location)
      confidence   == deriveConfidence(roundedFinal)
      reasonParts ==
           (IF Len(skill.matched) > 0 THEN << <<"Skills matched", skill.matched>> >> ELSE <<>>)
        \o (IF Len(skill.missing) > 0 THEN << <<"Skills missing", skill.missing>> >> ELSE <<>>)
        \o << <<"Skill score", Pct0(skill.num, skill.den), WEIGHT_SKILL>>,
              <<experience.detail, "Experience score",
                Pct0(experience.num, experience.den), WEIGHT_EXPERIENCE>>,
              <<location.detail, "Location score", 100 * location.score, WEIGHT_LOCATION>>,
              <<"Final weighted score", RoundDiv(roundedFinal, 10), "Confidence", confidence>> >>
  IN  [skillMatchScore      |-> Round4(skill.num, skill.den),
       experienceMatchScore |-> Round4(experience.num, experience.den),
       locationMatchScore   |-> 10000 * location.score,
       finalScore           |-> roundedFinal,
       confidence           |-> confidence,
       reason               |-> reasonParts]

\* ------------------------------------------------------------------------
\* FeatureExtractorService.ts
\*
\* The regular expressions are evaluated by the runtime's regex engine; a
\* resume text is represented by what they see in it:
\*   tokens      the lower-cased whitespace tokens of the text
\*   expMatch    for each of the four EXPERIENCE_PATTERNS, whether it matches
\*               and the number captured by its first match (tenths of years)
\*   dateRanges  the matches of DATE_RANGE_PATTERN, in text order
\*   locLabel    the capture of LOCATION_PATTERN, if it matches
\*   eduHits     the indices of the EDUCATION_PATTERNS that match
\*   ctxHits     the indices of the contextualPatterns that match
\* ------------------------------------------------------------------------

None == [hit |-> FALSE]
Some(v) == [hit |-> TRUE, val |-> v]

\* characters in increasing UTF-16 code unit order
CharOrder == <<" ", "#", "+", "-", ".", "/",
               "0","1","2","3","4","5","6","7","8","9">> \o UpperChars \o LowerChars

CharCode(c) == CHOOSE i \in 1..Len(CharOrder) : CharOrder[i] = c

\* a < b in the default Array.prototype.sort order
RECURSIVE LessStr(_, _)
LessStr(a, b) ==
  IF b = <<>> THEN FALSE
  ELSE IF a = <<>> THEN TRUE
  ELSE IF Head(a) = Head(b) THEN LessStr(Tail(a), Tail(b))
  ELSE CharCode(Head(a)) < CharCode(Head(b))

\* Array.from(set).sort()
RECURSIVE sortStrings(_)
sortStrings(S) ==
  IF S = {} THEN <<>>
  ELSE LET m == CHOOSE x \in S : \A y \in S \ {x} : LessStr(x, y)
       IN  <<m>> \o sortStrings(S \ {m})

\* the words of a search term
wordsOf(term) == splitWords(term, <<>>, <<>>)

\* term occurs in the token stream as a run of whole tokens
containsTerm(tokens, term) ==
  LET ws == wordsOf(term)
  IN  /\ Len(ws) > 0
      /\ \E i \in 1..Len(tokens) :
           /\ i + Len(ws) - 1 <= Len(tokens)
           /\ \A j \in 1..Len(ws) : tokens[i + j - 1] = ws[j]

isMultiWord(a) == \E i \in 1..Len(a) : a[i] \in {" ", ".", "/", "-"}

MULTI_WORD_ALIASES == { a \in ALL_ALIASES : isMultiWord(a) }

SINGLE_WORD_ALIAS_SET ==
  { a \in ALL_ALIASES : (\A i \in 1..Len(a) : a[i] \notin {" ", "/"}) /\ Len(a) >= 1 }

\* skill names of the contextualPatterns used here, by index
CONTEXT_SKILLS ==
  << <<"R","E","S","T">>, <<"D","o","c","k","e","r">>,
     <<"F","u","l","l","-","S","t","a","c","k">> >>

extractSkills(text, jobRequiredSkills) ==
  LET tokens == text.tokens
      \* 1. multi-word / dotted aliases
      pass1 == { AliasOf(a) : a \in { x \in MULTI_WORD_ALIASES : containsTerm(tokens, x) } }
      \* 2. single-word aliases, token by token
      pass2 == { AliasOf(t) : t \in { x \in Range(tokens) : x \in SINGLE_WORD_ALIAS_SET } }
      \* 3. bigrams and trigrams
      bigrams  == { tokens[i] \o <<" ">> \o tokens[i + 1] : i \in 1..(Len(tokens) - 1) }
      trigrams == { tokens[i] \o <<" ">> \o tokens[i + 1] \o <<" ">> \o tokens[i + 2] :
                      i \in 1..(Len(tokens) - 2) }
      pass3 == { AliasOf(g) : g \in { x \in bigrams \cup trigrams : HasAlias(x) } }
      \* 4. targeted search for every job-required skill
      searchTerms(r) ==
        { a \in ALL_ALIASES : AliasOf(a) = canonicalizeSkill(r) }
          \cup { trim(toLowerCase(r)), trim(toLowerCase(canonicalizeSkill(r))) }
      pass4 == { canonicalizeSkill(r) :
                   r \in { x \in Range(jobRequiredSkills) :
                             \E term \in searchTerms(x) : containsTerm(tokens, term) } }
      \* 5. contextual phrases
      pass5 == { CONTEXT_SKILLS[i] : i \in text.ctxHits }
  IN  [found |-> sortStrings(pass1 \cup pass2 \cup pass3 \cup pass4 \cup pass5)]

\* variant: the months of the year are ignored
monthsOfRange_yearsOnly(r) == (r.endYear - r.startYear) * 12

\* one match of DATE_RANGE_PATTERN: months 0..11, endYear after resolving
\* present/current/now/ongoing to the current date
monthsOfRange(r) == (r.endYear - r.startYear) * 12 + (r.endMonth - r.startMonth)

RECURSIVE totalMonths(_)
totalMonths(ranges) ==
  IF ranges = <<>> THEN 0
  ELSE (IF monthsOfRange(Head(ranges)) > 0 /\ monthsOfRange(Head(ranges)) < 600
          THEN monthsOfRange(Head(ranges)) ELSE 0)
       + totalMonths(Tail(ranges))

\* Math.round((totalMonths / 12) * 10) / 10, in tenths of years
calculateExperienceFromDates(text) == RoundDiv(10 * totalMonths(text.dateRanges), 12)

\* the loop over EXPERIENCE_PATTERNS, from pattern i on
RECURSIVE firstExplicit(_, _)
firstExplicit(expMatch, i) ==
  IF i > Len(expMatch) THEN None
  ELSE IF expMatch[i].hit /\ expMatch[i].val >= 0 /\ expMatch[i].val < 600
    THEN Some(expMatch[i].val)
  ELSE firstExplicit(expMatch, i + 1)

\* variant: the date ranges are tried before the explicit patterns
extractExperience_datesFirst(text) ==
  LET explicit  == firstExplicit(text.expMatch, 1)
      dateYears == calculateExperienceFromDates(text)
  IN  IF dateYears > 0 THEN [years |-> dateYears, matched |-> TRUE]
      ELSE IF explicit.hit THEN [years |-> explicit.val, matched |-> TRUE]
      ELSE [years |-> 0, matched |-> FALSE]

extractExperience(text) ==
  LET explicit  == firstExplicit(text.expMatch, 1)
      dateYears == calculateExperienceFromDates(text)
  IN  IF explicit.hit THEN [years |-> explicit.val, matched |-> TRUE]
      ELSE IF dateYears > 0 THEN [years |-> dateYears, matched |-> TRUE]
      ELSE [years |-> 0, matched |-> FALSE]

\* Entries of KNOWN_CITIES used here, in list order
KNOWN_CITIES == << <<"b","a","n","g","a","l","o","r","e">>, <<"b","e","n","g","a","l","u","r","u">>, <<"d","e","l","h","i">>, <<"n","e","w"," ","d","e","l","h","i">>, <<"p","u","n","e">>, <<"r","e","m","o","t","e">> >>

\* s.replace(/[,\s]+$/, "")
RECURSIVE stripTrailingCommas(_)
stripTrailingCommas(s) ==
  IF s = <<>> THEN <<>>
  ELSE IF s[Len(s)] \in {",", " "} THEN stripTrailingCommas(SubSeq(s, 1, Len(s) - 1))
  ELSE s

\* city.split(" ").map(w => w.charAt(0).toUpperCase() + w.slice(1)).join(" ")
capitalize(city) ==
  LET ws == splitWords(city, <<>>, <<>>)
  IN  joinWords([i \in 1..Len(ws) |-> <<UpperChar(ws[i][1])>> \o Tail(ws[i])])

UNKNOWN == <<"U","n","k","n","o","w","n">>

\* variant: a text without location gives the empty string
extractLocation_emptyDefault(text) ==
  LET labelled == IF text.locLabel.hit
                    THEN stripTrailingCommas(trim(text.locLabel.val)) ELSE <<>>
      known == { i \in 1..Len(KNOWN_CITIES) : containsTerm(text.tokens, KNOWN_CITIES[i]) }
  IN  IF text.locLabel.hit /\ Len(labelled) >= 2 /\ Len(labelled) <= 50
        THEN [city |-> labelled, matched |-> TRUE]
      ELSE IF known # {}
        THEN [city |-> capitalize(KNOWN_CITIES[CHOOSE i \in known : \A j \in known : i <= j]),
              matched |-> TRUE]
      ELSE [city |-> <<>>, matched |-> FALSE]

extractLocation(text) ==
  LET labelled == IF text.locLabel.hit
                    THEN stripTrailingCommas(trim(text.locLabel.val)) ELSE <<>>
      known == { i \in 1..Len(KNOWN_CITIES) : containsTerm(text.tokens, KNOWN_CITIES[i]) }
  IN  IF text.locLabel.hit /\ Len(labelled) >= 2 /\ Len(labelled) <= 50
        THEN [city |-> labelled, matched |-> TRUE]
      ELSE IF known # {}
        THEN [city |-> capitalize(KNOWN_CITIES[CHOOSE i \in known : \A j \in known : i <= j]),
              matched |-> TRUE]
      ELSE [city |-> UNKNOWN, matched |-> FALSE]

\* labels of EDUCATION_PATTERNS, in list order
EDUCATION_LABELS ==
  <<"PhD", "MBA", "Master's", "Bachelor's", "Associate's", "Diploma/Certificate", "High School">>

\* variant: the list is walked from its last entry
extractEducation_lowestRank(text) ==
  IF text.eduHits # {}
    THEN [level |-> EDUCATION_LABELS[CHOOSE i \in text.eduHits : \A j \in text.eduHits : i >= j],
          matched |-> TRUE]
    ELSE [level |-> "Not specified", matched |-> FALSE]

extractEducation(text) ==
  IF text.eduHits # {}
    THEN [level |-> EDUCATION_LABELS[CHOOSE i \in text.eduHits : \A j \in text.eduHits : i <= j],
          matched |-> TRUE]
    ELSE [level |-> "Not specified", matched |-> FALSE]

extractFeatures(text, jobRequiredSkills) ==
  LET skills     == extractSkills(text, jobRequiredSkills)
      experience == extractExperience(text)
      location   == extractLocation(text)
      education  == extractEducation(text)
  IN  [skills     |-> skills.found,
       experience |-> experience.years,
       location   |-> location.city,
       education  |-> education.level,
       extractionMeta |->
         [skillsFoundCount           |-> Len(skills.found),
          experiencePatternMatched   |-> experience.matched,
          locationPatternMatched     |-> location.matched,
          educationPatternMatched    |-> education.matched]]

\* ------------------------------------------------------------------------
\* ResumeParserService.ts
\* ------------------------------------------------------------------------

PDF_MIME == "application/pdf"
TXT_MIME == "text/plain"

\* variant: the check tests for a missing text, which never happens
isEmptyText_never(text) == FALSE

\* rawText.length === 0 for a trimmed text
isEmptyText(text) == text.tokens = <<>>

\* a buffer is [corrupt, text]: whether pdf-parse throws on it, and the text
\* it holds
parsePdf(buffer, mimeType) ==
  IF buffer.corrupt
    THEN [ok |-> FALSE, error |-> "Failed to parse PDF"]
    ELSE [ok |-> TRUE, rawText |-> buffer.text, mimeType |-> mimeType]

parsePlainText(buffer, mimeType) ==
  [ok |-> TRUE, rawText |-> buffer.text, mimeType |-> mimeType]

parseResume(buffer, mimeType) ==
  IF mimeType = PDF_MIME THEN parsePdf(buffer, mimeType)
  ELSE IF mimeType = TXT_MIME THEN parsePlainText(buffer, mimeType)
  ELSE [ok |-> FALSE, error |-> "unsupported MIME type"]

\* ------------------------------------------------------------------------
\* Universe of inputs
\* ------------------------------------------------------------------------

NoExp == <<None, None, None, None>>

EmptyText ==
  [tokens |-> <<>>, expMatch |-> NoExp, dateRanges |-> <<>>,
   locLabel |-> None, eduHits |-> {}, ctxHits |-> {}]

\* "... React ... ts ... Bangalore ... 5 years of experience ... B.Tech"
TextA ==
  [tokens |-> << <<"r","e","a","c","t">>, <<"t","s">>, <<"b","a","n","g","a","l","o","r","e">> >>,
   expMatch |-> <<Some(50), None, None, None>>, dateRanges |-> <<>>,
   locLabel |-> None, eduHits |-> {4}, ctxHits |-> {}]

\* "... Docker ... 2018 - 2020 ... Location: Pune"
TextB ==
  [tokens |-> << <<"d","o","c","k","e","r">> >>,
   expMatch |-> NoExp,
   dateRanges |-> << [startMonth |-> 0, startYear |-> 2018, endMonth |-> 11, endYear |-> 2020] >>,
   locLabel |-> Some(<<"P","u","n","e">>), eduHits |-> {}, ctxHits |-> {}]

\* rows of the JobOpening table: o1 and o2 belong to tenant tA, oB to tB
OpeningV1 ==
  [requiredSkills |-> << <<"T","y","p","e","S","c","r","i","p","t">>, <<"A","W","S">> >>,
   requiredExperience |-> 50, location |-> <<"B","e","n","g","a","l","u","r","u">>]

OpeningV2 ==
  [requiredSkills |-> << <<"D","o","c","k","e","r">> >>,
   requiredExperience |-> 20, location |-> <<"P","u","n","e">>]

OpeningVersions == {OpeningV1, OpeningV2}

OpeningRow(tenantId, v) ==
  [tenantId |-> tenantId, requiredSkills |-> v.requiredSkills,
   requiredExperience |-> v.requiredExperience, location |-> v.location]

OpeningTenant == [o1 |-> "tA", o2 |-> "tA", oB |-> "tB"]

OpeningIds == DOMAIN OpeningTenant

File(name, mime, corrupt, text) ==
  Some([originalname |-> name, mimetype |-> mime,
        buffer |-> [corrupt |-> corrupt, text |-> text]])

\* req.user.tenant.tenantId, req.user.id, req.body.openingId, req.file;
\* "" is an absent tenant or opening id, None an absent file
BaseInput ==
  [tenantId |-> "tA", userId |-> "u1", openingId |-> "o1",
   file |-> File("cv.pdf", PDF_MIME, FALSE, TextA)]

\* submissions that differ from BaseInput in one component of the
\* idempotency key, or in the bytes behind the same file name
KeyInputs ==
  { BaseInput,
    [BaseInput EXCEPT !.file = File("cv2.pdf", PDF_MIME, FALSE, TextA)],
    [BaseInput EXCEPT !.file = File("cv.pdf", PDF_MIME, FALSE, TextB)],
    [BaseInput EXCEPT !.openingId = "o2"],
    [BaseInput EXCEPT !.userId = "u2"],
    [BaseInput EXCEPT !.tenantId = "tB", !.openingId = "oB"] }

\* submissions that fail, one per cause, next to two that can succeed
ErrorInputs ==
  { BaseInput,
    [BaseInput EXCEPT !.file = File("cv.txt", TXT_MIME, FALSE, TextB)],
    [BaseInput EXCEPT !.file = File("cv.pdf", PDF_MIME, TRUE, EmptyText)],
    [BaseInput EXCEPT !.file = File("cv.pdf", PDF_MIME, FALSE, EmptyText)],
    [BaseInput EXCEPT !.file = File("cv.png", "image/png", FALSE, EmptyText)],
    [BaseInput EXCEPT !.file = None],
    [BaseInput EXCEPT !.openingId = "oB"],
    [BaseInput EXCEPT !.openingId = "o9"],
    [BaseInput EXCEPT !.tenantId = ""] }

\* one submission and its retries
RetryInputs == { BaseInput }

\* the texts and requirement lists that occur, and the pure functions
\* tabulated over them (each entry is the function applied to its argument)
Texts == {TextA, TextB, EmptyText}

SkillLists == { v.requiredSkills : v \in OpeningVersions }

FeaturesMemo == [t \in Texts, k \in SkillLists |-> extractFeatures(t, k)]

ScoringInputOf(features, opening) ==
  [candidateSkills       |-> features.skills,
   candidateExperience   |-> features.experience,
   candidateLocation     |-> features.location,
   jobRequiredSkills     |-> opening.requiredSkills,
   jobRequiredExperience |-> opening.requiredExperience,
   jobRequiredLocation   |-> opening.location]

ScoringInputs ==
  { ScoringInputOf(FeaturesMemo[t, k], v) :
      t \in Texts, k \in SkillLists, v \in OpeningVersions }

ScoreMemo == [i \in ScoringInputs |-> scoreCandidateForJob(i)]

\* values of performance.now() - t0, in ms
Latencies == {120}

\* ------------------------------------------------------------------------
\* State
\* ------------------------------------------------------------------------

VARIABLES
  pc,             \* where each invocation of submitHiringProfile stands
  input,          \* its request: tenant, user, openingId, file
  local,          \* its local variables and its open transaction
  response,       \* the HTTP response it has sent, if any
  ghost,          \* history: what had finished when it arrived, why it failed
  HiringProfile,  \* committed rows of the HiringProfile table
  JobOpening,     \* rows of the JobOpening table, by id
  clock,          \* CURRENT_TIMESTAMP / Date.now()
  listed,         \* the caller and the response of the last listProfiles call
  call,           \* a call of a function of the scoring pipeline: name, arguments
  result          \* what that call returned, once it has returned

vars == <<pc, input, local, response, ghost, HiringProfile, JobOpening, clock,
          listed, call, result>>

\* what the actions of submitHiringProfile leave alone
aside == <<listed, call, result>>

Reqs == DOMAIN pc

NoLocal ==
  [parsed |-> None, opening |-> None, features |-> None, profile |-> None,
   scoring |-> None, tx |-> {}]

NoGhost == [before |-> {}, cause |-> "none", failedAt |-> "none", replayed |-> None]

\* n invocations, none of which has arrived; empty HiringProfile table
InitWith(n) ==
  /\ pc = [r \in 1..n |-> "idle"]
  /\ input = [r \in 1..n |-> BaseInput]
  /\ local = [r \in 1..n |-> NoLocal]
  /\ response = [r \in 1..n |-> None]
  /\ ghost = [r \in 1..n |-> NoGhost]
  /\ HiringProfile = {}
  /\ JobOpening = [o \in OpeningIds |-> OpeningRow(OpeningTenant[o], OpeningV1)]
  /\ clock = 1
  /\ listed = None
  /\ call = None
  /\ result = None

Init == InitWith(NumReq)

InitRetry == InitWith(NumRetry)

\* ------------------------------------------------------------------------
\* Prisma operations
\* ------------------------------------------------------------------------

\* variant: the lookup compares the file name with the wrong column
findFirstProfile_wrongColumn(rows, s3Filename, openingId, userId, tenantId) ==
  LET m == { x \in rows : /\ x.s3Bucket = s3Filename
                          /\ x.openingId = openingId
                          /\ x.userId = userId
                          /\ x.tenantId = tenantId }
  IN  IF m = {} THEN None
      ELSE [hit |-> TRUE, val |-> CHOOSE x \in m : \A y \in m : y.createdAt <= x.createdAt]

\* variant: the lookup leaves the user out of the where clause
findFirstProfile_noUser(rows, s3Filename, openingId, userId, tenantId) ==
  LET m == { x \in rows : /\ x.s3Filename = s3Filename
                          /\ x.openingId = openingId
                          /\ x.tenantId = tenantId }
  IN  IF m = {} THEN None
      ELSE [hit |-> TRUE, val |-> CHOOSE x \in m : \A y \in m : y.createdAt <= x.createdAt]

\* prisma.hiringProfile.findFirst({ where: { s3Filename, openingId, userId,
\* tenantId }, orderBy: { createdAt: "desc" } })
findFirstProfile(rows, s3Filename, openingId, userId, tenantId) ==
  LET m == { x \in rows : /\ x.s3Filename = s3Filename
                          /\ x.openingId = openingId
                          /\ x.userId = userId
                          /\ x.tenantId = tenantId }
  IN  IF m = {} THEN None
      ELSE Some(CHOOSE x \in m : \A y \in m : y.createdAt <= x.createdAt)

\* tx.jobOpening.findUnique({ where: { id } })
findUniqueOpening(table, id) ==
  IF id \in DOMAIN table THEN Some(table[id]) ELSE None

\* variant: the tenant comparison is missing
openingDenied_noTenant(opening, tenantId) == ~opening.hit

\* if (!opening || opening.tenantId !== tenantId) throw JOB_OPENING_NOT_FOUND
openingDenied(opening, tenantId) ==
  ~opening.hit \/ opening.val.tenantId # tenantId

\* rows of w replace the rows of base with the same id
Override(base, w) ==
  { x \in base : \A y \in w : y.id # x.id } \cup w

\* variant: the create goes through the global client, outside the transaction
tableAfterTxCreate_autocommit(rows, row) == rows \cup {row}

\* the committed table after tx.hiringProfile.create: the row stays inside
\* the transaction
tableAfterTxCreate(rows, row) == rows

\* variant: the writes made before the throw stay
tableAfterRollback_partial(rows, txRows) == Override(rows, txRows)

\* the committed table after the transaction callback threw: rollback
tableAfterRollback(rows, txRows) == rows

\* variant: the commit loses the writes of the transaction
tableAfterCommit_lost(rows, txRows) == rows

\* the committed table after the transaction callback returned: commit
tableAfterCommit(rows, txRows) == Override(rows, txRows)

\* variant: the update selects by idempotency key instead of by id
updateWhere_byKey(x, profile) ==
  /\ x.s3Filename = profile.s3Filename
  /\ x.openingId = profile.openingId
  /\ x.userId = profile.userId
  /\ x.tenantId = profile.tenantId

\* where: { id: profile.id } of tx.hiringProfile.update
updateWhere(x, profile) == x.id = profile.id

\* variant: the requirement snapshot is read from the JobOpening table at
\* the time of the create, not taken from the opening the transaction read
newProfile_liveOpening(id, now, in, parsed, features, opening) ==
  [id |-> id,
   s3Key |-> <<"resumes", in.tenantId, in.openingId, now, in.file.val.originalname>>,
   s3Filename |-> in.file.val.originalname,
   s3Bucket |-> "zelosify-recruit-test",
   openingId |-> in.openingId,
   candidateSkills |-> features.skills,
   candidateExperience |-> features.experience,
   candidateLocation |-> features.location,
   candidateEducation |-> features.education,
   rawResumeText |-> parsed.rawText,
   jobRequiredSkills |-> JobOpening[in.openingId].requiredSkills,
   jobRequiredExperience |-> JobOpening[in.openingId].requiredExperience,
   jobRequiredLocation |-> JobOpening[in.openingId].location,
   tenantId |-> in.tenantId,
   userId |-> in.userId,
   createdAt |-> now,
   skillMatchScore |-> None,
   experienceMatchScore |-> None,
   locationMatchScore |-> None,
   finalScore |-> None,
   confidence |-> None,
   reason |-> None,
   recommendationLatencyMs |-> None]

\* data of tx.hiringProfile.create
newProfile(id, now, in, parsed, features, opening) ==
  [id |-> id,
   s3Key |-> <<"resumes", in.tenantId, in.openingId, now, in.file.val.originalname>>,
   s3Filename |-> in.file.val.originalname,
   s3Bucket |-> "zelosify-recruit-test",
   openingId |-> in.openingId,
   candidateSkills |-> features.skills,
   candidateExperience |-> features.experience,
   candidateLocation |-> features.location,
   candidateEducation |-> features.education,
   rawResumeText |-> parsed.rawText,
   jobRequiredSkills |-> opening.requiredSkills,
   jobRequiredExperience |-> opening.requiredExperience,
   jobRequiredLocation |-> opening.location,
   tenantId |-> in.tenantId,
   userId |-> in.userId,
   createdAt |-> now,
   skillMatchScore |-> None,
   experienceMatchScore |-> None,
   locationMatchScore |-> None,
   finalScore |-> None,
   confidence |-> None,
   reason |-> None,
   recommendationLatencyMs |-> None]

\* data of tx.hiringProfile.update
scoredProfile(row, scoringResult, latencyMs) ==
  [row EXCEPT !.skillMatchScore = Some(scoringResult.skillMatchScore),
              !.experienceMatchScore = Some(scoringResult.experienceMatchScore),
              !.locationMatchScore = Some(scoringResult.locationMatchScore),
              !.finalScore = Some(scoringResult.finalScore),
              !.confidence = Some(scoringResult.confidence),
              !.reason = Some(scoringResult.reason),
              !.recommendationLatencyMs = Some(latencyMs)]

\* the data object of the 200 and 201 responses
responseData(row) ==
  [id |-> row.id,
   finalScore |-> row.finalScore,
   confidence |-> row.confidence,
   reason |-> row.reason,
   recommendationLatencyMs |-> row.recommendationLatencyMs,
   skillMatchScore |-> row.skillMatchScore,
   experienceMatchScore |-> row.experienceMatchScore,
   locationMatchScore |-> row.locationMatchScore,
   candidateSkills |-> row.candidateSkills,
   candidateExperience |-> row.candidateExperience,
   candidateLocation |-> row.candidateLocation,
   candidateEducation |-> row.candidateEducation]

Reply(status, message, data) ==
  Some([status |-> status, message |-> message, data |-> data])

\* ------------------------------------------------------------------------
\* submitHiringProfile, one action per stretch between two awaits
\* ------------------------------------------------------------------------

\* the handler answers with a failure and returns; its locals are gone
Finish(r, reply, cause, at) ==
  /\ pc' = [pc EXCEPT ![r] = "done"]
  /\ response' = [response EXCEPT ![r] = reply]
  /\ ghost' = [ghost EXCEPT ![r].cause = cause, ![r].failedAt = at]
  /\ local' = [local EXCEPT ![r] = NoLocal]

\* the request arrives; requests are numbered in order of arrival
Receive(r, in) ==
  /\ pc[r] = "idle"
  /\ IF r = 1 THEN TRUE ELSE pc[r - 1] # "idle"
  /\ input' = [input EXCEPT ![r] = in]
  /\ IF in.tenantId = "" \/ in.userId = ""
       THEN /\ pc' = [pc EXCEPT ![r] = "done"]
            /\ response' = [response EXCEPT ![r] =
                 Reply(403, "Tenant/user context missing. Access denied.", None)]
       ELSE IF in.openingId = "" \/ ~in.file.hit
         THEN /\ pc' = [pc EXCEPT ![r] = "done"]
              /\ response' = [response EXCEPT ![r] =
                   Reply(400, "Missing required fields: openingId and resume file.", None)]
         ELSE /\ pc' = [pc EXCEPT ![r] = "lookup"]
              /\ UNCHANGED response
  /\ ghost' = [ghost EXCEPT ![r].before = { q \in Reqs : pc[q] = "done" }]
  /\ UNCHANGED <<local, HiringProfile, JobOpening, clock>>

\* the idempotency check returns
Lookup(r) ==
  /\ pc[r] = "lookup"
  /\ LET in == input[r]
         existingProfile == findFirstProfile(HiringProfile, in.file.val.originalname,
                                             in.openingId, in.userId, in.tenantId)
     IN  IF existingProfile.hit
           THEN /\ pc' = [pc EXCEPT ![r] = "done"]
                /\ response' = [response EXCEPT ![r] =
                     Reply(200, "Already processed. Returning existing scored profile.",
                           Some(responseData(existingProfile.val)))]
                /\ ghost' = [ghost EXCEPT ![r].replayed = Some(existingProfile.val.id)]
           ELSE /\ pc' = [pc EXCEPT ![r] = "parse"]
                /\ UNCHANGED <<response, ghost>>
  /\ UNCHANGED <<input, local, HiringProfile, JobOpening, clock>>

\* stage 1: parseResume returns or throws; the empty-text check
Parse(r) ==
  /\ pc[r] = "parse"
  /\ LET file == input[r].file.val
         parsed == parseResume(file.buffer, file.mimetype)
     IN  IF ~parsed.ok
           THEN /\ Finish(r, Reply(500, "Internal server error. Transaction rolled back.", None),
                          IF file.mimetype \in {PDF_MIME, TXT_MIME}
                            THEN "ParseFailure" ELSE "UnsupportedFormat",
                          "parse")
           ELSE IF isEmptyText(parsed.rawText)
             THEN /\ Finish(r, Reply(422, "Could not extract text from the uploaded PDF.", None),
                            "EmptyExtraction", "parse")
             ELSE /\ pc' = [pc EXCEPT ![r] = "tx_find"]
                  /\ local' = [local EXCEPT ![r].parsed = Some(parsed)]
                  /\ UNCHANGED <<response, ghost>>
  /\ UNCHANGED <<input, HiringProfile, JobOpening, clock>>

\* the transaction resolves the job opening; stage 2 extracts the features
TxFindOpening(r) ==
  /\ pc[r] = "tx_find"
  /\ LET in == input[r]
         opening == findUniqueOpening(JobOpening, in.openingId)
     IN  IF openingDenied(opening, in.tenantId)
           THEN /\ Finish(r, Reply(404, "Job opening not found or access denied.", None),
                          "OpeningNotFound", "tx_find")
                /\ HiringProfile' = tableAfterRollback(HiringProfile, local[r].tx)
           ELSE /\ pc' = [pc EXCEPT ![r] = "tx_create"]
                /\ local' = [local EXCEPT
                     ![r].opening = opening,
                     ![r].features = Some(FeaturesMemo[local[r].parsed.val.rawText,
                                                      opening.val.requiredSkills])]
                /\ UNCHANGED <<response, ghost, HiringProfile>>
  /\ UNCHANGED <<input, JobOpening, clock>>

\* step 1 of the transaction creates the row; stage 3 scores the candidate
TxCreate(r) ==
  /\ pc[r] = "tx_create"
  /\ LET features == local[r].features.val
         opening  == local[r].opening.val
         profile  == newProfile(r, clock, input[r], local[r].parsed.val, features, opening)
         scoringInput == ScoringInputOf(features, opening)
     IN  /\ local' = [local EXCEPT ![r].profile = Some(profile),
                                   ![r].tx = {profile},
                                   ![r].scoring = Some(ScoreMemo[scoringInput])]
         /\ HiringProfile' = tableAfterTxCreate(HiringProfile, profile)
  /\ pc' = [pc EXCEPT ![r] = "tx_update"]
  /\ clock' = clock + 1
  /\ UNCHANGED <<input, response, ghost, JobOpening>>

\* step 3 of the transaction writes score and latency into the row
TxUpdate(r) ==
  /\ pc[r] = "tx_update"
  /\ \E latencyMs \in Latencies :
       LET visible == Override(HiringProfile, local[r].tx)
           targets == { x \in visible : updateWhere(x, local[r].profile.val) }
           updated == { scoredProfile(x, local[r].scoring.val, latencyMs) : x \in targets }
       IN  local' = [local EXCEPT
             ![r].tx = Override(@, updated),
             ![r].profile = Some(scoredProfile(@.val, local[r].scoring.val, latencyMs))]
  /\ pc' = [pc EXCEPT ![r] = "tx_commit"]
  /\ UNCHANGED <<input, response, ghost, HiringProfile, JobOpening, clock>>

\* the transaction commits and the 201 response is sent
TxCommit(r) ==
  /\ pc[r] = "tx_commit"
  /\ HiringProfile' = tableAfterCommit(HiringProfile, local[r].tx)
  /\ pc' = [pc EXCEPT ![r] = "done"]
  /\ response' = [response EXCEPT ![r] =
       Reply(201, "Profile submitted and scored successfully (automated extraction).",
             Some(responseData(local[r].profile.val)))]
  /\ local' = [local EXCEPT ![r] = NoLocal]
  /\ UNCHANGED <<input, ghost, JobOpening, clock>>

\* a Prisma call rejects (connection lost, timeout, constraint): the catch
\* block answers 500; inside the transaction everything is rolled back
DbFail(r) ==
  /\ pc[r] \in {"lookup", "tx_find", "tx_create", "tx_update", "tx_commit"}
  /\ Finish(r, Reply(500, "Internal server error. Transaction rolled back.", None),
            "PersistenceFailure",
            IF pc[r] = "lookup" THEN "lookup"
            ELSE IF pc[r] \in {"tx_find", "tx_create"} THEN "before_create"
            ELSE "after_create")
  /\ HiringProfile' = tableAfterRollback(HiringProfile, local[r].tx)
  /\ UNCHANGED <<input, JobOpening, clock>>

\* the job opening is edited by its owner while requests are in flight
OpeningChanged(o, v) ==
  /\ o = "o1"
  /\ JobOpening[o] # OpeningRow(JobOpening[o].tenantId, v)
  /\ JobOpening' = [JobOpening EXCEPT ![o] = OpeningRow(@.tenantId, v)]
  /\ UNCHANGED <<pc, input, local, response, ghost, HiringProfile, clock>>

\* the first submission is BaseInput, the later ones vary around it
Next ==
  \/ \E r \in Reqs : \E in \in (IF r = 1 THEN {BaseInput} ELSE KeyInputs) : Receive(r, in) /\ UNCHANGED aside
  \/ \E r \in Reqs : Lookup(r) /\ UNCHANGED aside
  \/ \E r \in Reqs : Parse(r) /\ UNCHANGED aside
  \/ \E r \in Reqs : TxFindOpening(r) /\ UNCHANGED aside
  \/ \E r \in Reqs : TxCreate(r) /\ UNCHANGED aside
  \/ \E r \in Reqs : TxUpdate(r) /\ UNCHANGED aside
  \/ \E r \in Reqs : TxCommit(r) /\ UNCHANGED aside
  \/ \E r \in Reqs : DbFail(r) /\ UNCHANGED aside
  \/ \E o \in OpeningIds : \E v \in OpeningVersions : OpeningChanged(o, v) /\ UNCHANGED aside

NextErrors ==
  \/ \E r \in Reqs : \E in \in ErrorInputs : Receive(r, in) /\ UNCHANGED aside
  \/ \E r \in Reqs : Lookup(r) /\ UNCHANGED aside
  \/ \E r \in Reqs : Parse(r) /\ UNCHANGED aside
  \/ \E r \in Reqs : TxFindOpening(r) /\ UNCHANGED aside
  \/ \E r \in Reqs : TxCreate(r) /\ UNCHANGED aside
  \/ \E r \in Reqs : TxUpdate(r) /\ UNCHANGED aside
  \/ \E r \in Reqs : TxCommit(r) /\ UNCHANGED aside
  \/ \E r \in Reqs : DbFail(r) /\ UNCHANGED aside

NextRetry ==
  \/ \E r \in Reqs : \E in \in RetryInputs : Receive(r, in) /\ UNCHANGED aside
  \/ \E r \in Reqs : Lookup(r) /\ UNCHANGED aside
  \/ \E r \in Reqs : Parse(r) /\ UNCHANGED aside
  \/ \E r \in Reqs : TxFindOpening(r) /\ UNCHANGED aside
  \/ \E r \in Reqs : TxCreate(r) /\ UNCHANGED aside
  \/ \E r \in Reqs : TxUpdate(r) /\ UNCHANGED aside
  \/ \E r \in Reqs : TxCommit(r) /\ UNCHANGED aside
  \/ \E r \in Reqs : DbFail(r) /\ UNCHANGED aside

\* submissions with varying idempotency keys
Spec == Init /\ [][Next]_vars

\* submissions with varying failure causes
SpecErrors == Init /\ [][NextErrors]_vars

\* one submission retried
SpecRetry == InitRetry /\ [][NextRetry]_vars

\* two submissions with different texts for the opening that is edited
SnapshotInputs ==
  { BaseInput,
    [BaseInput EXCEPT !.file = File("cv2.pdf", PDF_MIME, FALSE, TextB)] }

\* the first submission is BaseInput, the later ones one of the two
NextSnapshot ==
  \/ \E r \in Reqs : \E in \in (IF r = 1 THEN {BaseInput} ELSE SnapshotInputs) : Receive(r, in) /\ UNCHANGED aside
  \/ \E r \in Reqs : Lookup(r) /\ UNCHANGED aside
  \/ \E r \in Reqs : Parse(r) /\ UNCHANGED aside
  \/ \E r \in Reqs : TxFindOpening(r) /\ UNCHANGED aside
  \/ \E r \in Reqs : TxCreate(r) /\ UNCHANGED aside
  \/ \E r \in Reqs : TxUpdate(r) /\ UNCHANGED aside
  \/ \E r \in Reqs : TxCommit(r) /\ UNCHANGED aside
  \/ \E r \in Reqs : DbFail(r) /\ UNCHANGED aside
  \/ \E o \in OpeningIds : \E v \in OpeningVersions : OpeningChanged(o, v) /\ UNCHANGED aside

\* submissions while the job opening is edited
SpecSnapshot == Init /\ [][NextSnapshot]_vars

\* ------------------------------------------------------------------------
\* listProfiles
\* ------------------------------------------------------------------------

\* JobOpening.title, which no operation changes
OpeningTitle ==
  [o1 |-> "Backend Engineer", o2 |-> "Platform Engineer", oB |-> "Data Engineer"]

\* the User rows the include joins; "" is a null name
User ==
  [u1 |-> [firstName |-> "Asha", lastName |-> "Rao", email |-> "asha@a.example"],
   u2 |-> [firstName |-> "", lastName |-> "", email |-> "ben@a.example"]]

\* `${firstName ?? ""} ${lastName ?? ""}`.trim() || email
submittedBy(u) ==
  LET name == IF u.firstName = "" THEN u.lastName
              ELSE IF u.lastName = "" THEN u.firstName
              ELSE u.firstName \o " " \o u.lastName
  IN  IF name = "" THEN u.email ELSE name

\* orderBy: { createdAt: "desc" }
RECURSIVE orderByCreatedAtDesc(_)
orderByCreatedAtDesc(S) ==
  IF S = {} THEN <<>>
  ELSE LET x == CHOOSE x \in S : \A y \in S : y.createdAt <= x.createdAt
       IN  <<x>> \o orderByCreatedAtDesc(S \ {x})

\* variant: the where clause is missing
findManyProfiles_noWhere(rows, tenantId) == orderByCreatedAtDesc(rows)

\* prisma.hiringProfile.findMany({ where: { tenantId }, orderBy: ... })
findManyProfiles(rows, tenantId) ==
  orderByCreatedAtDesc({ x \in rows : x.tenantId = tenantId })

\* one element of the data array of the response
listEntry(p) ==
  [id |-> p.id,
   s3Filename |-> p.s3Filename,
   candidateSkills |-> p.candidateSkills,
   candidateExperience |-> p.candidateExperience,
   candidateLocation |-> p.candidateLocation,
   jobTitle |-> IF p.openingId \in DOMAIN OpeningTitle
                  THEN OpeningTitle[p.openingId] ELSE "N/A",
   openingId |-> p.openingId,
   finalScore |-> p.finalScore,
   skillMatchScore |-> p.skillMatchScore,
   experienceMatchScore |-> p.experienceMatchScore,
   locationMatchScore |-> p.locationMatchScore,
   confidence |-> p.confidence,
   reason |-> p.reason,
   recommendationLatencyMs |-> p.recommendationLatencyMs,
   submittedBy |-> IF p.userId \in DOMAIN User
                     THEN submittedBy(User[p.userId]) ELSE "Unknown",
   createdAt |-> p.createdAt]

\* the response of listProfiles when the query succeeds; "" is no tenant
listProfiles(rows, tenantId) ==
  IF tenantId = ""
    THEN [status |-> 403, message |-> "Tenant context missing. Access denied.",
          data |-> None]
    ELSE LET profiles == findManyProfiles(rows, tenantId)
         IN  [status |-> 200, message |-> "success",
              data |-> Some([i \in 1..Len(profiles) |-> listEntry(profiles[i])])]

\* callers of listProfiles: the two tenants, and a caller without tenant
ListCallers == {"tA", "tB", ""}

\* GET /profiles is answered
ListProfiles(tenantId) ==
  /\ listed' = Some([tenantId |-> tenantId,
                     response |-> listProfiles(HiringProfile, tenantId)])
  /\ UNCHANGED <<pc, input, local, response, ghost, HiringProfile, JobOpening,
                 clock, call, result>>

\* the findMany query rejects: the catch block answers 500
ListProfilesFail(tenantId) ==
  /\ tenantId # ""
  /\ listed' = Some([tenantId |-> tenantId,
                     response |-> [status |-> 500, message |-> "Internal server error",
                                   data |-> None]])
  /\ UNCHANGED <<pc, input, local, response, ghost, HiringProfile, JobOpening,
                 clock, call, result>>

\* submissions of two tenants: tenant tA's, the same key under tenant tB
\* (whose opening o1 is not), and tenant tB's own
ListInputs ==
  { BaseInput,
    [BaseInput EXCEPT !.tenantId = "tB"],
    [BaseInput EXCEPT !.tenantId = "tB", !.openingId = "oB"] }

NextList ==
  \/ \E r \in Reqs : \E in \in ListInputs : Receive(r, in) /\ UNCHANGED aside
  \/ \E r \in Reqs : Lookup(r) /\ UNCHANGED aside
  \/ \E r \in Reqs : Parse(r) /\ UNCHANGED aside
  \/ \E r \in Reqs : TxFindOpening(r) /\ UNCHANGED aside
  \/ \E r \in Reqs : TxCreate(r) /\ UNCHANGED aside
  \/ \E r \in Reqs : TxUpdate(r) /\ UNCHANGED aside
  \/ \E r \in Reqs : TxCommit(r) /\ UNCHANGED aside
  \/ \E r \in Reqs : DbFail(r) /\ UNCHANGED aside
  \/ \E t \in ListCallers : ListProfiles(t)
  \/ \E t \in ListCallers : ListProfilesFail(t)

\* submissions and listings of two tenants
SpecList == Init /\ [][NextList]_vars

\* ------------------------------------------------------------------------
\* Calls of the scoring functions and of canonicalizeSkill
\* ------------------------------------------------------------------------

\* candidateSkills: none, canonical names, aliases, an unknown skill
CandidateSkillLists ==
  { <<>>,
    <<<<"T","y","p","e","S","c","r","i","p","t">>, <<"R","e","a","c","t">>>>,
    <<<<"r","e","a","c","t","j","s">>, <<"D","o","c","k","e","r">>, <<"K","a","f","k","a">>>>,
    <<<<"t","s">>>> }

\* jobRequiredSkills: none, four skills, three skills, two aliases of one
\* skill, one skill
RequiredSkillLists ==
  { <<>>,
    <<<<"T","y","p","e","S","c","r","i","p","t">>, <<"R","e","a","c","t">>, <<"A","W","S">>, <<"D","o","c","k","e","r">>>>,
    <<<<"R","e","a","c","t">>, <<"D","o","c","k","e","r">>, <<"G","o">>>>,
    <<<<"T","y","p","e","S","c","r","i","p","t">>, <<"T","S">>>>,
    <<<<"A","W","S">>>> }

\* candidateExperience, in tenths of years; extractExperience returns no
\* negative number
CandidateYears == {0, 5, 20, 30, 50, 100}

\* jobRequiredExperience, in tenths of years
RequiredYears == {0 - 10, 0, 40, 50, 60, 80}

\* location strings: empty, aliases of one city, other separators and
\* spaces, a city without alias
Locations ==
  { <<>>,
    <<"B","a","n","g","a","l","o","r","e">>,
    <<"B","e","n","g","a","l","u","r","u">>,
    <<"b","e","n","g","a","l","u","r","u">>,
    <<"D","e","l","h","i">>,
    <<"N","e","w"," ","D","e","l","h","i">>,
    <<"N","e","w","-","D","e","l","h","i">>,
    <<" ","D","e","l","h","i">>,
    <<"M","u","m","b","a","i">> }

ScoreCalls ==
  { [fn |-> "scoreCandidateForJob",
     args |-> [candidateSkills |-> cs, candidateExperience |-> ce,
               candidateLocation |-> cl, jobRequiredSkills |-> rs,
               jobRequiredExperience |-> re, jobRequiredLocation |-> rl]] :
      cs \in CandidateSkillLists, ce \in CandidateYears,
      cl \in {<<>>, <<"B","a","n","g","a","l","o","r","e">>, <<"M","u","m","b","a","i">>},
      rs \in RequiredSkillLists, re \in RequiredYears,
      rl \in {<<>>, <<"B","a","n","g","a","l","o","r","e">>} }

SkillCalls ==
  { [fn |-> "computeSkillMatch",
     args |-> [candidateSkills |-> cs, requiredSkills |-> rs]] :
      cs \in CandidateSkillLists, rs \in RequiredSkillLists }

ExperienceCalls ==
  { [fn |-> "computeExperienceMatch",
     args |-> [candidateExperience |-> ce, requiredExperience |-> re]] :
      ce \in CandidateYears, re \in RequiredYears }

LocationCalls ==
  { [fn |-> "computeLocationMatch",
     args |-> [candidateLocation |-> cl, requiredLocation |-> rl]] :
      cl \in Locations, rl \in Locations }

\* skill strings: aliases, canonical names, plurals, inner and outer spaces,
\* unknown skills
SkillStrings ==
  { <<"t","s">>,
    <<"T","y","p","e","S","c","r","i","p","t">>,
    <<"T","y","p","e"," ","S","c","r","i","p","t">>,
    <<"D","o","c","k","e","r","s">>,
    <<"r","e","s","t"," ","a","p","i">>,
    <<"r","e","s","t"," "," ","a","p","i">>,
    <<"R","e","s","t"," ","A","p","i">>,
    <<"R","E","S","T">>,
    <<"k","a","f","k","a">>,
    <<" "," ","g","o"," ">>,
    <<"h","E","L","L","O"," "," ","w","O","R","L","D">>,
    <<>> }

CanonicalizeCalls ==
  { [fn |-> "canonicalizeSkill", args |-> [skill |-> k]] : k \in SkillStrings }

\* pairs of skill strings: spacing and case variants of an alias, of a
\* multi-word alias and of an unknown skill, and two different skills
SkillPairs ==
  { <<<<"T","y","p","e"," ","S","c","r","i","p","t">>, <<"T","y","p","e","S","c","r","i","p","t">>>>,
    <<<<" ","t","y","p","e","s","c","r","i","p","t"," ">>, <<"T","y","p","e","S","c","r","i","p","t">>>>,
    <<<<"T","Y","P","E","S","C","R","I","P","T">>, <<"t","y","p","e","s","c","r","i","p","t">>>>,
    <<<<"r","e","s","t"," ","a","p","i">>, <<"r","e","s","t","a","p","i">>>>,
    <<<<"H","e","l","l","o"," ","W","o","r","l","d">>, <<"H","e","l","l","o","W","o","r","l","d">>>>,
    <<<<"R","E","S","T">>, <<"r","e","s","t">>>>,
    <<<<"D","o","c","k","e","r">>, <<"G","o">>>> }

CanonicalizePairCalls ==
  { [fn |-> "canonicalizeSkill, twice", args |-> [a |-> p[1], b |-> p[2]]] :
      p \in SkillPairs }

\* EDUCATION_PATTERNS that match, in the order in which their first matches
\* stand in the text: none, one, a lower rank before a higher one, ...
EducationOrders ==
  { <<>>, <<1>>, <<7>>, <<4, 1>>, <<1, 4>>, <<7, 3, 2>>, <<5, 7>>, <<6, 4, 3>> }

TextWithEducation(at) ==
  [EmptyText EXCEPT !.tokens = << <<"r","e","s","u","m","e">> >>, !.eduHits = Range(at)]

EducationCalls ==
  { [fn |-> "extractEducation",
     args |-> [text |-> TextWithEducation(at), eduAt |-> at]] :
      at \in EducationOrders }

\* matches of DATE_RANGE_PATTERN: 35 months, 11 months inside them, exactly
\* 600 months, 599 months, 612 months, and an end before the start
Range35  == [startMonth |-> 0, startYear |-> 2018, endMonth |-> 11, endYear |-> 2020]
Range11  == [startMonth |-> 0, startYear |-> 2019, endMonth |-> 11, endYear |-> 2019]
Range600 == [startMonth |-> 0, startYear |-> 1970, endMonth |-> 0,  endYear |-> 2020]
Range599 == [startMonth |-> 0, startYear |-> 1970, endMonth |-> 11, endYear |-> 2019]
Range612 == [startMonth |-> 0, startYear |-> 1960, endMonth |-> 0,  endYear |-> 2011]
RangeBackwards == [startMonth |-> 0, startYear |-> 2020, endMonth |-> 11, endYear |-> 2019]

DateRangeLists ==
  { <<>>, <<Range35>>, <<Range35, Range35>>, <<Range35, Range11>>,
    <<Range600>>, <<Range35, Range600>>, <<Range599>>, <<Range35, Range612>>,
    <<Range35, RangeBackwards>>, <<RangeBackwards>> }

\* first matches of the four EXPERIENCE_PATTERNS, in tenths of years: none,
\* "5 years", "75 years" with and without a later pattern, "0 years", "60"
ExpMatches ==
  { NoExp,
    <<Some(50), None, None, None>>,
    <<Some(750), Some(30), None, None>>,
    <<Some(750), None, None, None>>,
    <<None, Some(0), None, Some(80)>>,
    <<None, None, Some(600), None>>,
    <<None, None, None, Some(595)>> }

TextWithExperience(em, dr) ==
  [EmptyText EXCEPT !.tokens = << <<"r","e","s","u","m","e">> >>, !.expMatch = em, !.dateRanges = dr]

ExtractExperienceCalls ==
  { [fn |-> "extractExperience", args |-> [text |-> TextWithExperience(em, dr)]] :
      em \in ExpMatches, dr \in DateRangeLists }

DateRangeCalls ==
  { [fn |-> "calculateExperienceFromDates",
     args |-> [text |-> TextWithExperience(NoExp, dr)]] : dr \in DateRangeLists }

\* "... REST API ..." and "... full-stack developer ...": no experience, no
\* location, no education
TextRest ==
  [EmptyText EXCEPT !.tokens = <<<<"r","e","s","t">>, <<"a","p","i">>>>, !.ctxHits = {1}]

TextFullStack ==
  [EmptyText EXCEPT !.tokens = <<<<"f","u","l","l","-","s","t","a","c","k">>, <<"d","e","v","e","l","o","p","e","r">>>>,
                    !.ctxHits = {3}]

FeatureTexts == {TextA, TextB, TextRest, TextFullStack}

\* requiredSkills of a job opening: two canonical names, a name typed with
\* two spaces next to a canonical name, none
FeatureSkillLists ==
  { <<<<"T","y","p","e","S","c","r","i","p","t">>, <<"A","W","S">>>>,
    <<<<"r","e","s","t"," "," ","a","p","i">>, <<"D","o","c","k","e","r">>>>,
    <<>> }

\* location of a job opening
OpeningLocations ==
  { <<>>, <<"B","e","n","g","a","l","u","r","u">>, <<"P","u","n","e">>, <<"U","n","k","n","o","w","n">>, <<"u","n","k","n","o","w","n">> }

ExtractFeaturesCalls ==
  { [fn |-> "extractFeatures", args |-> [rawText |-> t, jobRequiredSkills |-> k]] :
      t \in FeatureTexts, k \in FeatureSkillLists }

\* stages 2 and 3 of submitHiringProfile on a parsed text and an opening
PipelineCalls ==
  { [fn |-> "extractFeatures, scoreCandidateForJob",
     args |-> [rawText |-> t,
               opening |-> [requiredSkills |-> k, requiredExperience |-> 50,
                            location |-> l]]] :
      t \in FeatureTexts, k \in FeatureSkillLists, l \in OpeningLocations }

Calls ==
  ScoreCalls \cup SkillCalls \cup ExperienceCalls \cup LocationCalls
    \cup CanonicalizeCalls \cup CanonicalizePairCalls
    \cup EducationCalls \cup ExtractExperienceCalls \cup DateRangeCalls
    \cup ExtractFeaturesCalls \cup PipelineCalls

\* one call is about to be made; no request is in flight
InitCalls ==
  /\ pc = <<>>
  /\ input = <<>>
  /\ local = <<>>
  /\ response = <<>>
  /\ ghost = <<>>
  /\ HiringProfile = {}
  /\ JobOpening = [o \in OpeningIds |-> OpeningRow(OpeningTenant[o], OpeningV1)]
  /\ clock = 1
  /\ listed = None
  /\ call \in Calls
  /\ result = None

\* the call returns v and touches nothing else
Return(v) ==
  /\ ~result.hit
  /\ result' = Some(v)
  /\ UNCHANGED <<pc, input, local, response, ghost, HiringProfile, JobOpening,
                 clock, listed, call>>

CallScore ==
  /\ call.fn = "scoreCandidateForJob"
  /\ Return(scoreCandidateForJob(call.args))

CallSkillMatch ==
  /\ call.fn = "computeSkillMatch"
  /\ Return(computeSkillMatch(call.args.candidateSkills, call.args.requiredSkills))

CallExperienceMatch ==
  /\ call.fn = "computeExperienceMatch"
  /\ Return(computeExperienceMatch(call.args.candidateExperience,
                                   call.args.requiredExperience))

CallLocationMatch ==
  /\ call.fn = "computeLocationMatch"
  /\ Return(computeLocationMatch(call.args.candidateLocation,
                                 call.args.requiredLocation))

\* the call and, on what it returned, a second call
CallCanonicalize ==
  /\ call.fn = "canonicalizeSkill"
  /\ Return([once  |-> canonicalizeSkill(call.args.skill),
             twice |-> canonicalizeSkill(canonicalizeSkill(call.args.skill))])

\* canonicalizeSkill on two strings, and the skill match of the one as the
\* candidate's skill against the other as the required skill
CallCanonicalizePair ==
  /\ call.fn = "canonicalizeSkill, twice"
  /\ Return([a |-> canonicalizeSkill(call.args.a),
             b |-> canonicalizeSkill(call.args.b),
             match |-> computeSkillMatch(<<call.args.a>>, <<call.args.b>>)])

CallExtractEducation ==
  /\ call.fn = "extractEducation"
  /\ Return(extractEducation(call.args.text))

CallExtractExperience ==
  /\ call.fn = "extractExperience"
  /\ Return(extractExperience(call.args.text))

CallExperienceFromDates ==
  /\ call.fn = "calculateExperienceFromDates"
  /\ Return(calculateExperienceFromDates(call.args.text))

CallExtractFeatures ==
  /\ call.fn = "extractFeatures"
  /\ Return(extractFeatures(call.args.rawText, call.args.jobRequiredSkills))

\* extractFeatures on the text and the opening's skills, then
\* scoreCandidateForJob on the features and the opening
CallPipeline ==
  /\ call.fn = "extractFeatures, scoreCandidateForJob"
  /\ LET opening  == call.args.opening
         features == extractFeatures(call.args.rawText, opening.requiredSkills)
     IN  Return([features |-> features,
                 scoringResult |-> scoreCandidateForJob(ScoringInputOf(features, opening))])

NextCalls ==
  \/ CallScore
  \/ CallSkillMatch
  \/ CallExperienceMatch
  \/ CallLocationMatch
  \/ CallCanonicalize
  \/ CallCanonicalizePair
  \/ CallExtractEducation
  \/ CallExtractExperience
  \/ CallExperienceFromDates
  \/ CallExtractFeatures
  \/ CallPipeline

\* single calls of the pure functions
SpecCalls == InitCalls /\ [][NextCalls]_vars

\* ------------------------------------------------------------------------
\* Properties of submitHiringProfile
\* ------------------------------------------------------------------------

Done(r) == pc[r] = "done"

Status(r) == response[r].val.status

\* the idempotency key of a request that carries a file, and of a row
KeyOfInput(in) == <<in.file.val.originalname, in.openingId, in.userId, in.tenantId>>

KeyOfRow(x) == <<x.s3Filename, x.openingId, x.userId, x.tenantId>>

HasKey(r) == pc[r] # "idle" /\ input[r].file.hit

RowsWithKey(k) == { x \in HiringProfile : KeyOfRow(x) = k }

ScoreFields(d) ==
  <<d.skillMatchScore, d.experienceMatchScore, d.locationMatchScore,
    d.finalScore, d.confidence, d.reason>>

\* q ran entirely before r arrived
Before(q, r) == q \in ghost[r].before

\* C1: in every reachable state the table holds at most one row per
\* idempotency key (filename, openingId, userId, tenantId), whatever the
\* interleaving of the requests that carry the key.
C1_AtMostOneRowPerKey ==
  \A x, y \in HiringProfile : KeyOfRow(x) = KeyOfRow(y) => x = y

\* C2: when a submission has been answered 201 without overlapping any other
\* submission of its key, every later submission of the key that is answered
\* at all is answered 200 with the score fields of the first response, and
\* the table holds exactly one row for the key.
C2_Sequential(r1, r2) ==
  /\ r1 # r2
  /\ Done(r1) /\ Done(r2)
  /\ HasKey(r1) /\ HasKey(r2)
  /\ KeyOfInput(input[r1]) = KeyOfInput(input[r2])
  /\ Status(r1) = 201
  /\ Before(r1, r2)
  /\ ghost[r2].cause # "PersistenceFailure"
  /\ \A q \in Reqs \ {r1} :
       (HasKey(q) /\ KeyOfInput(input[q]) = KeyOfInput(input[r1]))
         => (Before(r1, q) \/ Before(q, r1))

C2_ResubmissionReplays ==
  \A r1, r2 \in Reqs :
    C2_Sequential(r1, r2) =>
      /\ Status(r2) = 200
      /\ ScoreFields(response[r2].val.data.val) = ScoreFields(response[r1].val.data.val)
      /\ Cardinality(RowsWithKey(KeyOfInput(input[r1]))) = 1

\* the second submission carried other bytes under the same file name
C2_Witness ==
  \E r1, r2 \in Reqs :
    /\ C2_Sequential(r1, r2)
    /\ Status(r2) = 200
    /\ input[r1].file.val.buffer # input[r2].file.val.buffer

RowScored(x) ==
  /\ x.skillMatchScore.hit
  /\ x.experienceMatchScore.hit
  /\ x.locationMatchScore.hit
  /\ x.finalScore.hit
  /\ x.confidence.hit
  /\ x.reason.hit
  /\ x.recommendationLatencyMs.hit

\* C3: every row a reader can see (the committed table) has all six score
\* fields and the latency populated, also while other requests are inside
\* their transaction and after a request failed in the middle of one.
C3_VisibleRowsScored == \A x \in HiringProfile : RowScored(x)

\* a committed row, a row created but not yet scored inside an open
\* transaction, and a request that failed after its create
C3_Witness ==
  /\ HiringProfile # {}
  /\ \/ \E r \in Reqs : pc[r] = "tx_update" /\ \E x \in local[r].tx : ~RowScored(x)
     \/ \E r \in Reqs : Done(r) /\ ghost[r].failedAt = "after_create"

\* C4: a request that fails after its create has run and before its
\* transaction has committed leaves the table as it was, holds no row of its
\* own in it, and is answered with a failure (500).
C4_FailureAfterCreateRollsBack ==
  [][ \A r \in Reqs :
        (pc[r] \in {"tx_update", "tx_commit"} /\ pc'[r] = "done"
           /\ response'[r].val.status # 201)
          => /\ HiringProfile' = HiringProfile
             /\ \A x \in HiringProfile' : x.id # r
             /\ response'[r].val.status = 500 ]_vars

C4_Witness ==
  \E r \in Reqs :
    /\ Done(r) /\ ghost[r].failedAt = "after_create" /\ Status(r) = 500
    /\ \A x \in HiringProfile : x.id # r

\* what makes a submission fail before the write
UnsupportedType(in) == in.file.val.mimetype \notin {PDF_MIME, TXT_MIME}

CorruptPdf(in) == in.file.val.mimetype = PDF_MIME /\ in.file.val.buffer.corrupt

EmptyContent(in) == in.file.val.buffer.text.tokens = <<>>

BadOpening(in) ==
  \/ in.openingId \notin DOMAIN JobOpening
  \/ JobOpening[in.openingId].tenantId # in.tenantId

FailsBeforeWrite(in) ==
  /\ in.file.hit
  /\ UnsupportedType(in) \/ CorruptPdf(in) \/ EmptyContent(in) \/ BadOpening(in)

\* C5: no step of a request whose file has an unsupported type, is a corrupt
\* PDF or yields empty text, or whose opening is missing or belongs to
\* another tenant, changes the HiringProfile table.
C5_EarlyFailureLeavesStore ==
  [][ \A r \in Reqs :
        (pc'[r] # pc[r] /\ FailsBeforeWrite(input'[r]))
          => HiringProfile' = HiringProfile ]_vars

\* such a request has failed while the table holds a row
C5_Witness ==
  \E r \in Reqs :
    /\ Done(r)
    /\ ghost[r].cause \in {"UnsupportedFormat", "ParseFailure",
                           "EmptyExtraction", "OpeningNotFound"}
    /\ HiringProfile # {}

C7_ShortCircuit ==
  [][ \A r \in Reqs :
        (pc[r] = "lookup" /\ pc'[r] # "lookup"
           /\ ghost'[r].cause # "PersistenceFailure")
          => LET in == input[r]
                 same == { x \in HiringProfile :
                             /\ x.s3Filename = in.file.val.originalname
                             /\ x.openingId = in.openingId
                             /\ x.userId = in.userId
                             /\ x.tenantId = in.tenantId }
             IN  IF same # {}
                   THEN /\ pc'[r] = "done"
                        /\ response'[r].val.status = 200
                        /\ \E x \in same : response'[r].val.data.val = responseData(x)
                        /\ local'[r] = NoLocal
                        /\ HiringProfile' = HiringProfile
                        /\ JobOpening' = JobOpening
                   ELSE /\ pc'[r] = "parse"
                        /\ response'[r] = None ]_vars

\* a replay although the bytes or the opening's requirements differ from
\* what the replayed row was scored on, next to a row with another key
C7_Witness ==
  \E r \in Reqs :
    /\ Done(r) /\ Status(r) = 200
    /\ \E x \in HiringProfile :
         /\ x.id = ghost[r].replayed.val
         /\ \/ x.rawResumeText # input[r].file.val.buffer.text
            \/ x.jobRequiredSkills # JobOpening[x.openingId].requiredSkills

\* C8: after a submission failed with a persistence failure, its retries,
\* overlapping or not, leave at most one row for the key.
C8_RetrySafe ==
  \A f \in Reqs : \A x, y \in HiringProfile :
    ( /\ Done(f) /\ ghost[f].cause = "PersistenceFailure"
      /\ KeyOfRow(x) = KeyOfInput(input[f])
      /\ KeyOfRow(y) = KeyOfInput(input[f])
      /\ Before(f, x.id) /\ Before(f, y.id) )
      => x = y

\* C9: a committed row never changes and never disappears.
C9_RowsImmutable ==
  [][ \A x \in HiringProfile : x \in HiringProfile' ]_vars

\* a row whose requirement snapshot differs from the opening as it is now,
\* after a later request has finished
C9_Witness ==
  \E x \in HiringProfile :
    /\ x.jobRequiredSkills # JobOpening[x.openingId].requiredSkills
    /\ \E r \in Reqs : Done(r) /\ r # x.id /\ ~Before(r, x.id)

Outcome(r) == <<response[r].val.status, response[r].val.message>>

\* C10: two requests that failed for different causes were answered with
\* different outcomes.
C10_DistinctOutcomes ==
  \A r1, r2 \in Reqs :
    ( /\ Done(r1) /\ Done(r2)
      /\ ghost[r1].cause # "none" /\ ghost[r2].cause # "none"
      /\ ghost[r1].cause # ghost[r2].cause )
      => Outcome(r1) # Outcome(r2)

\* C11: a listProfiles response for a caller of tenant t holds exactly the
\* entries of the rows of tenant t, so it is what it would be if the rows of
\* the other tenants were absent; a replay of submitHiringProfile returns a
\* row of the caller's tenant; a caller without tenant is answered 403
\* without data.
C11_TenantIsolation ==
  [][ /\ (listed' # listed /\ listed'.val.response.status # 500) =>
           LET t    == listed'.val.tenantId
               resp == listed'.val.response
               own  == { x \in HiringProfile : x.tenantId = t }
           IN  IF t = ""
                 THEN resp.status = 403 /\ ~resp.data.hit
                 ELSE /\ resp.status = 200
                      /\ Len(resp.data.val) = Cardinality(own)
                      /\ \A i \in 1..Len(resp.data.val) :
                           \E x \in own : resp.data.val[i] = listEntry(x)
                      /\ \A i, j \in 1..Len(resp.data.val) :
                           i < j => resp.data.val[i].createdAt >= resp.data.val[j].createdAt
      /\ \A r \in Reqs :
           (pc[r] = "lookup" /\ pc'[r] = "done" /\ response'[r].val.status = 200) =>
             \E x \in HiringProfile :
               /\ x.tenantId = input[r].tenantId
               /\ response'[r].val.data.val = responseData(x) ]_vars

\* tenant tA has listed its rows while the table holds a row of tenant tB
C11_Witness ==
  /\ listed.hit
  /\ listed.val.tenantId = "tA"
  /\ listed.val.response.status = 200
  /\ listed.val.response.data.val # <<>>
  /\ \E x \in HiringProfile : x.tenantId = "tB"

\* ------------------------------------------------------------------------
\* Properties of the scoring functions and of canonicalizeSkill
\* ------------------------------------------------------------------------

Returned(fn) == call.fn = fn /\ result.hit

\* the worked example: 2 of 4 skills, 10 years against 5, equal locations
WorkedExample ==
  [candidateSkills |-> <<<<"T","y","p","e","S","c","r","i","p","t">>, <<"R","e","a","c","t">>>>,
   candidateExperience |-> 100,
   candidateLocation |-> <<"B","a","n","g","a","l","o","r","e">>,
   jobRequiredSkills |-> <<<<"T","y","p","e","S","c","r","i","p","t">>, <<"R","e","a","c","t">>, <<"A","W","S">>, <<"D","o","c","k","e","r">>>>,
   jobRequiredExperience |-> 50,
   jobRequiredLocation |-> <<"B","a","n","g","a","l","o","r","e">>]

\* C12: the finalScore returned by scoreCandidateForJob is the multiple of
\* 0.0001 nearest to 0.5*skill + 0.3*experience + 0.2*location (half up), the
\* three sub-scores being those of the input; the worked example gives sub-
\* scores 0.5, 1, 1, final score 0.75 and confidence HIGH.
C12_FinalScoreFormula ==
  Returned("scoreCandidateForJob") =>
    LET a == call.args
        s == computeSkillMatch(a.candidateSkills, a.jobRequiredSkills)
        e == computeExperienceMatch(a.candidateExperience, a.jobRequiredExperience)
        l == computeLocationMatch(a.candidateLocation, a.jobRequiredLocation)
        D == s.den * e.den
        N == 1000 * (5 * s.num * e.den + 3 * e.num * s.den + 2 * l.score * D)
        F == result.val.finalScore
    IN  /\ D > 0
        /\ 2 * F * D <= 2 * N + D
        /\ 2 * N + D < 2 * (F + 1) * D
        /\ a = WorkedExample =>
             /\ result.val.skillMatchScore = 5000
             /\ result.val.experienceMatchScore = 10000
             /\ result.val.locationMatchScore = 10000
             /\ F = 7500
             /\ result.val.confidence = "HIGH"

C12_Witness ==
  /\ Returned("scoreCandidateForJob")
  /\ call.args = WorkedExample
  /\ result.val.finalScore = 7500

\* C13: the returned finalScore is the 4-decimal rounding of the weighted
\* sum of the three sub-scores as returned (themselves rounded to 4
\* decimals).
C13_RederivableFromReturned ==
  Returned("scoreCandidateForJob") =>
    result.val.finalScore =
      RoundDiv(5 * result.val.skillMatchScore + 3 * result.val.experienceMatchScore
                 + 2 * result.val.locationMatchScore, 10)

CanonicalSet(skills) == { canonicalizeSkill(k) : k \in Range(skills) }

\* C14: the skill score is the number of canonical names common to the
\* required and the candidate skills, divided by the number of required
\* skills; 1 without required skills, 0 without candidate skills.
C14_SkillScore ==
  Returned("computeSkillMatch") =>
    LET cs == call.args.candidateSkills
        rs == call.args.requiredSkills
        shared == Cardinality(CanonicalSet(rs) \cap CanonicalSet(cs))
    IN  IF Len(rs) = 0
          THEN result.val.num = result.val.den
          ELSE /\ result.val.num * Len(rs) = shared * result.val.den
               /\ Len(cs) = 0 => result.val.num = 0

\* C15: the experience score is 1 when no positive number of years is
\* required or the candidate has at least the required years, and the ratio
\* candidate / required otherwise (0 for 0 years).
C15_ExperienceScore ==
  Returned("computeExperienceMatch") =>
    LET ce == call.args.candidateExperience
        re == call.args.requiredExperience
    IN  /\ result.val.den # 0
        /\ IF re <= 0 \/ ce >= re
             THEN result.val.num = result.val.den
             ELSE /\ result.val.num * re = ce * result.val.den
                  /\ ce = 0 => result.val.num = 0

\* a proportional score, neither 0 nor 1
C15_Witness ==
  /\ Returned("computeExperienceMatch")
  /\ call.args.candidateExperience = 20
  /\ call.args.requiredExperience = 50
  /\ 5 * result.val.num = 2 * result.val.den

\* lower-casing followed by the alias table, nothing else
LowerAliased(loc) ==
  LET lower == toLowerCase(loc)
  IN  IF \E p \in LOCATION_ALIASES : p[1] = lower
        THEN (CHOOSE p \in LOCATION_ALIASES : p[1] = lower)[2]
        ELSE lower

\* C16 as stated: the location score is 1 if a location is empty, and
\* otherwise 1 exactly when the locations are equal after lower-casing and
\* alias resolution; it is symmetric.
C16_LowerCaseAndAlias ==
  Returned("computeLocationMatch") =>
    LET cl == call.args.candidateLocation
        rl == call.args.requiredLocation
    IN  /\ result.val.score \in {0, 1}
        /\ result.val.score = computeLocationMatch(rl, cl).score
        /\ IF cl = <<>> \/ rl = <<>>
             THEN result.val.score = 1
             ELSE result.val.score = 1 <=> LowerAliased(cl) = LowerAliased(rl)

\* trimming, lower-casing, one space for each run of spaces, hyphens and
\* underscores, then the alias table
Normalised(loc) == LowerAliased(collapseSeps(trim(loc), FALSE))

\* C16 amended: the location score is 1 if a location is empty, and
\* otherwise 1 exactly when the locations are equal after trimming, lower-
\* casing, replacing runs of spaces, hyphens and underscores by one space,
\* and alias resolution; it is symmetric.
C16_NormalisedAndAlias ==
  Returned("computeLocationMatch") =>
    LET cl == call.args.candidateLocation
        rl == call.args.requiredLocation
    IN  /\ result.val.score \in {0, 1}
        /\ result.val.score = computeLocationMatch(rl, cl).score
        /\ IF cl = <<>> \/ rl = <<>>
             THEN result.val.score = 1
             ELSE result.val.score = 1 <=> Normalised(cl) = Normalised(rl)

\* "New-Delhi" against "Delhi" scores 1
C16_Witness ==
  /\ Returned("computeLocationMatch")
  /\ call.args.candidateLocation = <<"N","e","w","-","D","e","l","h","i">>
  /\ call.args.requiredLocation = <<"D","e","l","h","i">>
  /\ result.val.score = 1

C20_Idempotent ==
  Returned("canonicalizeSkill") => result.val.twice = result.val.once

\* the strings differ only in letter case and in white space
SameLetters(a, b) ==
  stripWhitespace(toLowerCase(a)) = stripWhitespace(toLowerCase(b))

\* C21: two skill strings that differ only in letter case and in the
\* presence or amount of white space canonicalize to the same name, and the
\* scorer counts the one as a match of the other.
C21_CaseWhitespaceInsensitive ==
  (Returned("canonicalizeSkill, twice") /\ SameLetters(call.args.a, call.args.b)) =>
    /\ result.val.a = result.val.b
    /\ result.val.match.num = 1
    /\ result.val.match.matched = <<call.args.b>>

\* C22: a request writes to the HiringProfile store only after its scoring
\* has completed, and what it writes is the whole record, score fields
\* included: there is no create followed by a separate score update.
C22_ScoreThenOneWrite ==
  [][ \A r \in Reqs :
        (local'[r].tx # local[r].tx /\ local'[r].tx # {})
          => /\ local[r].scoring.hit
             /\ \A x \in local'[r].tx : RowScored(x) ]_vars

\* ------------------------------------------------------------------------
\* Properties of the feature extractor
\* ------------------------------------------------------------------------

\* C23: extractEducation returns the label of the matching pattern of the
\* highest rank (PhD > MBA > Master's > Bachelor's > Associate's >
\* Diploma/Certificate > High School), wherever in the text the matches
\* stand, and "Not specified" with matched = FALSE exactly when no pattern
\* matches.
C23_HighestRankWins ==
  Returned("extractEducation") =>
    LET at == call.args.eduAt
    IN  /\ (result.val.level = "Not specified") <=> (at = <<>>)
        /\ result.val.matched <=> (at # <<>>)
        /\ at # <<>> =>
             \E i \in 1..Len(at) :
               /\ \A j \in 1..Len(at) : at[i] <= at[j]
               /\ result.val.level =
                    <<"PhD", "MBA", "Master's", "Bachelor's", "Associate's",
                      "Diploma/Certificate", "High School">>[at[i]]

\* "Bachelor's" stands before "PhD" in the text and PhD is returned
C23_Witness ==
  /\ Returned("extractEducation")
  /\ call.args.eduAt = <<4, 1>>
  /\ result.val.level = "PhD"

\* the patterns whose first match captured a number, and those among them
\* whose number lies in [0, 60)
Matching(expMatch) == { i \in 1..Len(expMatch) : expMatch[i].hit }

Deciding(expMatch) ==
  { i \in Matching(expMatch) : 0 <= expMatch[i].val /\ expMatch[i].val < 600 }

First(S) == CHOOSE i \in S : \A j \in S : i <= j

\* what the date ranges give, and the default
FromDates(text) ==
  IF calculateExperienceFromDates(text) > 0
    THEN [years |-> calculateExperienceFromDates(text), matched |-> TRUE]
    ELSE [years |-> 0, matched |-> FALSE]

\* C24 as stated: the first explicit pattern that matches decides the result,
\* which is its number if that lies in [0, 60); the date ranges are summed
\* only if no explicit pattern matches; without a value from either the
\* result is 0 years, unmatched; the years are never negative.
C24_FirstMatchDecides ==
  Returned("extractExperience") =>
    LET em == call.args.text.expMatch
    IN  /\ result.val.years >= 0
        /\ IF Matching(em) # {}
             THEN result.val =
                    IF First(Matching(em)) \in Deciding(em)
                      THEN [years |-> em[First(Matching(em))].val, matched |-> TRUE]
                      ELSE [years |-> 0, matched |-> FALSE]
             ELSE result.val = FromDates(call.args.text)

\* C24 amended: the first explicit pattern whose first match has a number in
\* [0, 60) decides the result; a pattern whose first match has a number
\* outside that range is passed over; the date ranges are summed only if no
\* pattern decides; without a value from either the result is 0 years,
\* unmatched; the years are never negative.
C24_FirstValidMatchDecides ==
  Returned("extractExperience") =>
    LET em == call.args.text.expMatch
    IN  /\ result.val.years >= 0
        /\ IF Deciding(em) # {}
             THEN result.val = [years |-> em[First(Deciding(em))].val, matched |-> TRUE]
             ELSE result.val = FromDates(call.args.text)

\* "75 years" in the first pattern, "3 years" in the second, and date ranges
C24_Witness ==
  /\ Returned("extractExperience")
  /\ call.args.text.expMatch = <<Some(750), Some(30), None, None>>
  /\ call.args.text.dateRanges # <<>>
  /\ result.val = [years |-> 30, matched |-> TRUE]

Months(r) == 12 * (r.endYear - r.startYear) + r.endMonth - r.startMonth

\* the sum of the durations, each range counted, of the ranges lasting lo
\* to hi months
RECURSIVE SumMonths(_, _, _)
SumMonths(ranges, lo, hi) ==
  IF ranges = <<>> THEN 0
  ELSE (IF lo <= Months(Head(ranges)) /\ Months(Head(ranges)) <= hi
          THEN Months(Head(ranges)) ELSE 0)
       + SumMonths(Tail(ranges), lo, hi)

\* tenths is total / 12 years rounded to one decimal, half up
IsYearsOf(tenths, total) ==
  /\ 24 * tenths <= 20 * total + 12
  /\ 20 * total + 12 < 24 * (tenths + 1)

\* C25 as stated: a range is left out only when it is longer than 600
\* months; every other range adds its full duration in months, overlapping
\* or equal ranges each; the total is converted to years rounded to one
\* decimal.
C25_OnlyLongRangesDiscarded ==
  Returned("calculateExperienceFromDates") =>
    IsYearsOf(result.val, SumMonths(call.args.text.dateRanges, 0 - 100000, 600))

\* C25 amended: a range is left out when its duration is not positive or is
\* 600 months or more; every other range adds its full duration in months,
\* overlapping or equal ranges each; the total is converted to years rounded
\* to one decimal.
C25_PlausibleRangesSummed ==
  Returned("calculateExperienceFromDates") =>
    IsYearsOf(result.val, SumMonths(call.args.text.dateRanges, 1, 599))

\* two roles over the same 35 months give 70 months, 5.8 years
C25_Witness ==
  /\ Returned("calculateExperienceFromDates")
  /\ call.args.text.dateRanges = <<Range35, Range35>>
  /\ result.val = 58

\* C26: every skill name returned by extractFeatures is a fixed point of
\* canonicalizeSkill, the list has no duplicates, and skillsFoundCount is the
\* number of distinct names in it.
C26_SkillsCanonical ==
  Returned("extractFeatures") =>
    LET skills == result.val.skills
    IN  /\ \A i \in 1..Len(skills) : canonicalizeSkill(skills[i]) = skills[i]
        /\ \A i, j \in 1..Len(skills) : skills[i] = skills[j] => i = j
        /\ result.val.extractionMeta.skillsFoundCount = Cardinality(Range(skills))

\* the targeted search finds the required skill r in the text: one of its
\* search terms stands there
TargetedFinds(tokens, r) ==
  \E term \in { a \in ALL_ALIASES : AliasOf(a) = canonicalizeSkill(r) }
                \cup { trim(toLowerCase(r)), trim(toLowerCase(canonicalizeSkill(r))) } :
    containsTerm(tokens, term)

\* C27: every required skill that the targeted search finds in the text is
\* in the matched list of the scorer applied to the extracted skills and the
\* same required list, and the skill score counts it.
C27_TargetedRecall ==
  Returned("extractFeatures, scoreCandidateForJob") =>
    LET required == call.args.opening.requiredSkills
        skill    == computeSkillMatch(result.val.features.skills, required)
        found    == { i \in 1..Len(required) :
                        TargetedFinds(call.args.rawText.tokens, required[i]) }
    IN  /\ \A i \in found : required[i] \in Range(skill.matched)
        /\ found # {} =>
             result.val.scoringResult.skillMatchScore * Len(required)
               >= 10000 * Cardinality(found) - Len(required)

\* C30 as stated: extractLocation returns no empty string; a text without
\* detectable location gets the location "Unknown", which scores 0 against a
\* job with a non-empty location and 1 against a job with an empty one.
C30_UnknownScoresZero ==
  Returned("extractFeatures, scoreCandidateForJob") =>
    LET features == result.val.features
        required == call.args.opening.location
    IN  /\ features.location # <<>>
        /\ ~features.extractionMeta.locationPatternMatched =>
             /\ features.location = <<"U","n","k","n","o","w","n">>
             /\ result.val.scoringResult.locationMatchScore =
                  IF required = <<>> THEN 10000 ELSE 0

\* C30 amended: extractLocation returns no empty string; a text without
\* detectable location gets the location "Unknown", which scores 0 against a
\* job whose location is non-empty and does not normalise to "unknown", and
\* 1 against a job whose location is empty or normalises to "unknown".
C30_UnknownScoresZeroUnlessUnknown ==
  Returned("extractFeatures, scoreCandidateForJob") =>
    LET features == result.val.features
        required == call.args.opening.location
    IN  /\ features.location # <<>>
        /\ ~features.extractionMeta.locationPatternMatched =>
             /\ features.location = <<"U","n","k","n","o","w","n">>
             /\ result.val.scoringResult.locationMatchScore =
                  IF required = <<>> \/ Normalised(required) = <<"u","n","k","n","o","w","n">>
                    THEN 10000 ELSE 0

\* a text without location against a job in Bengaluru
C30_Witness ==
  /\ Returned("extractFeatures, scoreCandidateForJob")
  /\ ~result.val.features.extractionMeta.locationPatternMatched
  /\ call.args.opening.location = <<"B","e","n","g","a","l","u","r","u">>
  /\ result.val.scoringResult.locationMatchScore = 0

\* ------------------------------------------------------------------------
\* Properties of the stored records and of the responses
\* ------------------------------------------------------------------------

\* scoreCandidateForJob on the candidate features and the requirement
\* snapshot that the row itself holds (ScoreMemo[i] is scoreCandidateForJob(i))
ScoreOfRow(x) ==
  ScoreMemo[
    [candidateSkills       |-> x.candidateSkills,
     candidateExperience   |-> x.candidateExperience,
     candidateLocation     |-> x.candidateLocation,
     jobRequiredSkills     |-> x.jobRequiredSkills,
     jobRequiredExperience |-> x.jobRequiredExperience,
     jobRequiredLocation   |-> x.jobRequiredLocation]]

SelfConsistent(x) ==
  ScoreFields(x) =
    <<Some(ScoreOfRow(x).skillMatchScore), Some(ScoreOfRow(x).experienceMatchScore),
      Some(ScoreOfRow(x).locationMatchScore), Some(ScoreOfRow(x).finalScore),
      Some(ScoreOfRow(x).confidence), Some(ScoreOfRow(x).reason)>>

\* C28: the six score fields of every committed row, and of every row that
\* a transaction is about to commit, are those of scoreCandidateForJob
\* applied to the candidate features and the job-requirement snapshot of
\* that same row, also when the job opening was edited while the submission
\* was in flight.
C28_RecordsSelfConsistent ==
  /\ \A x \in HiringProfile : SelfConsistent(x)
  /\ \A r \in Reqs : pc[r] = "tx_commit" => \A x \in local[r].tx : SelfConsistent(x)

\* the opening was edited after a request read it and before it commits,
\* and a committed row holds requirements that the opening no longer has
C28_Witness ==
  /\ \E r \in Reqs :
       /\ pc[r] = "tx_commit"
       /\ local[r].opening.val # JobOpening[input[r].openingId]
  /\ \E x \in HiringProfile :
       x.jobRequiredSkills # JobOpening[x.openingId].requiredSkills

\* C29: a request is answered exactly once, when it ends, with one of the
\* statuses 403, 400, 200, 422, 201, 404 and 500, and a sent response never
\* changes; 201 is sent by the step that commits the transaction, and as long
\* as a request stands answered 201 the table holds the scored row with the
\* returned id and fields.
C29_ExactlyOneResponse ==
  [][ \A r \in Reqs :
        /\ response[r].hit => response'[r] = response[r]
        /\ response'[r].hit <=> pc'[r] = "done"
        /\ response'[r].hit =>
             response'[r].val.status \in {403, 400, 200, 422, 201, 404, 500}
        /\ (response'[r].hit /\ response'[r].val.status = 201) =>
             /\ response[r].hit \/ pc[r] = "tx_commit"
             /\ \E x \in HiringProfile' :
                  /\ x.id = response'[r].val.data.val.id
                  /\ RowScored(x)
                  /\ responseData(x) = response'[r].val.data.val ]_vars

\* one request was answered 201, another failed inside its transaction and
\* was answered 500
C29_Witness ==
  \E r1, r2 \in Reqs :
    /\ Done(r1) /\ Status(r1) = 201
    /\ \E x \in HiringProfile : x.id = response[r1].val.data.val.id
    /\ Done(r2) /\ Status(r2) = 500 /\ ghost[r2].failedAt = "after_create"

====
